---- MODULE Spec2Model ----
(***************************************************************************)
(* Game-state machine and turn/action engine of src/game.py.               *)
(*                                                                         *)
(* The state is the content of DATA_FILE (game_data.json) and the HTTP     *)
(* response of the request handled last.  Every handler runs to completion *)
(* (load -> validate/mutate -> save), one action per Flask route.          *)
(* requests holds the handlers that are between their load and their save, *)
(* each with its local game_data; it is empty wherever handlers run one at *)
(* a time and is used by SpecRace, where two of them overlap.              *)
(*                                                                         *)
(* Player names, houses, types and action texts are JSON strings; a JSON   *)
(* null / absent request field is the value None.  Request fields of any   *)
(* other JSON type (numbers, lists, objects) are not modelled.             *)
(***************************************************************************)
EXTENDS Integers, Sequences, FiniteSets, TLC

VARIABLES file, response, requests

vars == <<file, response, requests>>

(***************************************************************************)
(* Bounds and input domains.                                               *)
(***************************************************************************)
\* cap on the length of game_events (the log grows without bound in the code)
MaxEvents == 3
\* cap on the number of players whose eliminated flag is set
MaxEliminated == 1

\* Python's None (JSON null); never a member of Names
None == "None"

Names == {"P1", "P2", "P3", "P4"}
\* "Ghost" is a name that is never registered
PlayerInputs == Names \cup {"Ghost", None}
\* "" and None are the falsy values of `not player_name or not house`
NameInputs == Names \cup {"", None}
HouseInputs == {"Stark", ""}
TypeInputs == {"human", "ai"}
\* the names that are also requested with type "ai"
AiNameInputs == {"P2", "P3"}
\* the JSON bodies posted to /create_player
CreateInputs ==
    {r \in [name : NameInputs, house : HouseInputs, type : TypeInputs] :
        r.type = "ai" => r.name \in AiNameInputs}
ActionInputs == {"attack"}

(***************************************************************************)
(* The document and the file that holds it.                                *)
(***************************************************************************)
\* initial_state with the wrong default difficulty
initial_state_easy ==
    [players        |-> <<>>,
     turn_order     |-> <<>>,
     game_status    |-> "waiting",
     current_turn   |-> None,
     ai_players     |-> <<>>,
     votes_to_start |-> <<>>,
     game_events    |-> <<>>,
     last_attacks   |-> <<>>,
     ai_difficulty  |-> "easy"]

\* game.py:12-22
initial_state ==
    [players        |-> <<>>,
     turn_order     |-> <<>>,
     game_status    |-> "waiting",
     current_turn   |-> None,
     ai_players     |-> <<>>,
     votes_to_start |-> <<>>,
     game_events    |-> <<>>,
     last_attacks   |-> <<>>,
     ai_difficulty  |-> "normal"]

\* new_player that ignores the requested type
new_player_human(house, player_type) ==
    [house      |-> house,
     power      |-> 5,
     castles    |-> 1,
     influence  |-> 3,
     eliminated |-> FALSE,
     type       |-> "human"]

\* game.py:76-83
new_player(house, player_type) ==
    [house      |-> house,
     power      |-> 5,
     castles    |-> 1,
     influence  |-> 3,
     eliminated |-> FALSE,
     type       |-> player_type]

\* the file after json.dump(game_data, file) (game.py:38-41)
save_game_data(game_data) == [kind |-> "json", data |-> game_data]

\* the file after initialize_game_data() (game.py:10-23)
initialize_game_data == save_game_data(initial_state)

\* load_game_data() (game.py:26-35) catches FileNotFoundError and
\* json.JSONDecodeError only.  A file whose bytes are not text in the
\* encoding open(DATA_FILE, "r") reads with makes json.load raise
\* UnicodeDecodeError, which leaves load_game_data uncaught.
load_raises(f) == f.kind = "bytes"

\* the value load_game_data() returns (game.py:26-35) when it returns: the
\* stored document, or the default one when the file is missing or is text
\* that json.load rejects
load_game_data(f) ==
    IF f.kind = "json" THEN f.data ELSE initialize_game_data.data

\* the file load_game_data() leaves behind: a missing (line 28-29) or
\* undecodable (line 33-34) file is rewritten with the default document
file_after_load(f) ==
    IF f.kind = "json" THEN f ELSE initialize_game_data

\* the response of no request
NoResponse == [route |-> "", code |-> 0, body |-> <<>>]

\* the two request threads of the server (app.run serves each request in a
\* thread of its own) and their state when neither is inside a handler
RequestIds == {"a", "b"}
NoRequests == [r \in RequestIds |-> [pc |-> "idle"]]

\* Python's truthiness of a request field that is a string or None
Truthy(v) == v # "" /\ v # None

\* list.index(x), 0-based: the first position of x
index(seq, x) == (CHOOSE i \in 1..Len(seq) :
                     seq[i] = x /\ \A j \in 1..(i - 1) : seq[j] # x) - 1

\* seq[i] with Python's 0-based subscript
at(seq, i) == seq[i + 1]

\* next_turn_index without the modulo: the last player keeps the turn
next_turn_index_nowrap(game_data, player) ==
    IF index(game_data.turn_order, player) + 1 < Len(game_data.turn_order)
    THEN index(game_data.turn_order, player) + 1
    ELSE index(game_data.turn_order, player)

\* rotation that steps over the next player
next_turn_index_skip(game_data, player) ==
    (index(game_data.turn_order, player) + 2) % Len(game_data.turn_order)

\* the index of the player after `player` in the rotation (game.py:124)
next_turn_index(game_data, player) ==
    (index(game_data.turn_order, player) + 1) % Len(game_data.turn_order)

\* f"{player} executed {action}."
executed_message(player, action) == player \o " executed " \o action \o "."

NumEliminated(game_data) ==
    Cardinality({n \in DOMAIN game_data.players :
                    game_data.players[n].eliminated})

(***************************************************************************)
(* Initial states: the process starts with whatever DATA_FILE holds.  Run  *)
(* as __main__ the file is reset first (game.py:208-211); imported by a    *)
(* WSGI server the file may be absent or undecodable.  Spec takes the file, *)
(* when there is one, to hold text: a JSON document ("json") or anything   *)
(* json.load rejects ("corrupt": empty, truncated, not JSON).  SpecStore   *)
(* drops that assumption and also starts from a file of bytes that are not *)
(* text ("bytes").                                                         *)
(***************************************************************************)
Init ==
    /\ file \in {initialize_game_data, [kind |-> "missing"], [kind |-> "corrupt"]}
    /\ response = NoResponse
    /\ requests = NoRequests

InitStore ==
    /\ file \in {initialize_game_data, [kind |-> "missing"],
                 [kind |-> "corrupt"], [kind |-> "bytes"]}
    /\ response = NoResponse
    /\ requests = NoRequests

(***************************************************************************)
(* Routes.                                                                 *)
(***************************************************************************)
\* GET /game_state (game.py:50-53)
game_state ==
    /\ response' = [route |-> "/game_state", code |-> 200,
                    body |-> load_game_data(file)]
    /\ UNCHANGED requests
    /\ file' = file_after_load(file)

\* reset_game that clears the players and the log but keeps game_status
\* and current_turn
reset_game_partial ==
    /\ response' = [route |-> "/reset_game", code |-> 200,
                    body |-> [message |-> "Game state has been reset."]]
    /\ UNCHANGED requests
    /\ file' = save_game_data(
          [load_game_data(file) EXCEPT !.players = <<>>,
                                       !.turn_order = <<>>,
                                       !.game_events = <<>>])

\* POST /reset_game (game.py:55-59)
reset_game ==
    /\ response' = [route |-> "/reset_game", code |-> 200,
                    body |-> [message |-> "Game state has been reset."]]
    /\ UNCHANGED requests
    /\ file' = initialize_game_data

\* create_player without the duplicate check: a registered name is
\* registered again
create_player_overwrite(player_name, house, player_type) ==
    IF ~Truthy(player_name) \/ ~Truthy(house)
    THEN /\ response' = [route |-> "/create_player", code |-> 400,
                         body |-> [error |-> "Missing player name or house"]]
         /\ UNCHANGED requests
         /\ file' = file
    ELSE LET game_data == load_game_data(file) IN
         /\ response' = [route |-> "/create_player", code |-> 201,
                         body |-> [message |-> "Player " \o player_name
                                     \o " from House " \o house
                                     \o " created successfully."]]
         /\ UNCHANGED requests
         /\ file' = save_game_data(
               [game_data EXCEPT
                  !.players = (player_name :> new_player(house, player_type)) @@ @,
                  !.turn_order = Append(@, player_name)])

\* create_player that inserts the name at the front of turn_order
create_player_front(player_name, house, player_type) ==
    IF ~Truthy(player_name) \/ ~Truthy(house)
    THEN /\ response' = [route |-> "/create_player", code |-> 400,
                         body |-> [error |-> "Missing player name or house"]]
         /\ UNCHANGED requests
         /\ file' = file
    ELSE LET game_data == load_game_data(file) IN
         IF player_name \in DOMAIN game_data.players
         THEN /\ response' = [route |-> "/create_player", code |-> 400,
                              body |-> [error |-> "Player already exists"]]
              /\ UNCHANGED requests
              /\ file' = file_after_load(file)
         ELSE /\ response' = [route |-> "/create_player", code |-> 201,
                              body |-> [message |-> "Player " \o player_name
                                          \o " from House " \o house
                                          \o " created successfully."]]
              /\ UNCHANGED requests
              /\ file' = save_game_data(
                    [game_data EXCEPT
                       !.players = (player_name :> new_player(house, player_type)) @@ @,
                       !.turn_order = <<player_name>> \o @])

\* create_player that hands the turn to the player it registers in a game
\* in progress
create_player_takes_turn(player_name, house, player_type) ==
    IF ~Truthy(player_name) \/ ~Truthy(house)
    THEN /\ response' = [route |-> "/create_player", code |-> 400,
                         body |-> [error |-> "Missing player name or house"]]
         /\ UNCHANGED requests
         /\ file' = file
    ELSE LET game_data == load_game_data(file) IN
         IF player_name \in DOMAIN game_data.players
         THEN /\ response' = [route |-> "/create_player", code |-> 400,
                              body |-> [error |-> "Player already exists"]]
              /\ UNCHANGED requests
              /\ file' = file_after_load(file)
         ELSE /\ response' = [route |-> "/create_player", code |-> 201,
                              body |-> [message |-> "Player " \o player_name
                                          \o " from House " \o house
                                          \o " created successfully."]]
              /\ UNCHANGED requests
              /\ file' = save_game_data(
                    [game_data EXCEPT
                       !.players = (player_name :> new_player(house, player_type)) @@ @,
                       !.turn_order = Append(@, player_name),
                       !.current_turn = IF game_data.game_status = "in progress"
                                        THEN player_name ELSE @])

\* POST /create_player (game.py:61-87)
create_player(player_name, house, player_type) ==
    IF ~Truthy(player_name) \/ ~Truthy(house)
    THEN /\ response' = [route |-> "/create_player", code |-> 400,
                         body |-> [error |-> "Missing player name or house"]]
         /\ UNCHANGED requests
         /\ file' = file
    ELSE LET game_data == load_game_data(file) IN
         IF player_name \in DOMAIN game_data.players
         THEN /\ response' = [route |-> "/create_player", code |-> 400,
                              body |-> [error |-> "Player already exists"]]
              /\ UNCHANGED requests
              /\ file' = file_after_load(file)
         ELSE /\ response' = [route |-> "/create_player", code |-> 201,
                              body |-> [message |-> "Player " \o player_name
                                          \o " from House " \o house
                                          \o " created successfully."]]
              /\ UNCHANGED requests
              /\ file' = save_game_data(
                    [game_data EXCEPT
                       !.players = (player_name :> new_player(house, player_type)) @@ @,
                       !.turn_order = Append(@, player_name)])

\* start_game that gives the first turn to the last registered player
start_game_last ==
    LET game_data == load_game_data(file) IN
    IF Cardinality(DOMAIN game_data.players) < 3
    THEN /\ response' = [route |-> "/start_game", code |-> 400,
                         body |-> [error |-> "At least 3 players required to start."]]
         /\ UNCHANGED requests
         /\ file' = file_after_load(file)
    ELSE /\ response' = [route |-> "/start_game", code |-> 200,
                         body |-> [message |-> "Game has started!"]]
         /\ UNCHANGED requests
         /\ file' = save_game_data(
               [game_data EXCEPT
                  !.game_status = "in progress",
                  !.current_turn = at(game_data.turn_order,
                                      Len(game_data.turn_order) - 1)])

\* start_game that accepts 2 players
start_game_two ==
    LET game_data == load_game_data(file) IN
    IF Cardinality(DOMAIN game_data.players) < 2
    THEN /\ response' = [route |-> "/start_game", code |-> 400,
                         body |-> [error |-> "At least 3 players required to start."]]
         /\ UNCHANGED requests
         /\ file' = file_after_load(file)
    ELSE /\ response' = [route |-> "/start_game", code |-> 200,
                         body |-> [message |-> "Game has started!"]]
         /\ UNCHANGED requests
         /\ file' = save_game_data(
               [game_data EXCEPT
                  !.game_status = "in progress",
                  !.current_turn = at(game_data.turn_order, 0)])

\* start_game that sets game_status and forgets current_turn
start_game_status_only ==
    LET game_data == load_game_data(file) IN
    IF Cardinality(DOMAIN game_data.players) < 3
    THEN /\ response' = [route |-> "/start_game", code |-> 400,
                         body |-> [error |-> "At least 3 players required to start."]]
         /\ UNCHANGED requests
         /\ file' = file_after_load(file)
    ELSE /\ response' = [route |-> "/start_game", code |-> 200,
                         body |-> [message |-> "Game has started!"]]
         /\ UNCHANGED requests
         /\ file' = save_game_data(
               [game_data EXCEPT !.game_status = "in progress"])

\* start_game that toggles: called on a started game it puts game_status
\* back to "waiting" and clears current_turn
start_game_toggle ==
    LET game_data == load_game_data(file) IN
    IF Cardinality(DOMAIN game_data.players) < 3
    THEN /\ response' = [route |-> "/start_game", code |-> 400,
                         body |-> [error |-> "At least 3 players required to start."]]
         /\ UNCHANGED requests
         /\ file' = file_after_load(file)
    ELSE /\ response' = [route |-> "/start_game", code |-> 200,
                         body |-> [message |-> "Game has started!"]]
         /\ UNCHANGED requests
         /\ file' = save_game_data(
               IF game_data.game_status = "waiting"
               THEN [game_data EXCEPT
                       !.game_status = "in progress",
                       !.current_turn = at(game_data.turn_order, 0)]
               ELSE [game_data EXCEPT
                       !.game_status = "waiting",
                       !.current_turn = None])

\* start_game that refuses a game already in progress
start_game_once ==
    LET game_data == load_game_data(file) IN
    IF game_data.game_status = "in progress"
    THEN /\ response' = [route |-> "/start_game", code |-> 400,
                         body |-> [error |-> "Game already started."]]
         /\ UNCHANGED requests
         /\ file' = file_after_load(file)
    ELSE IF Cardinality(DOMAIN game_data.players) < 3
    THEN /\ response' = [route |-> "/start_game", code |-> 400,
                         body |-> [error |-> "At least 3 players required to start."]]
         /\ UNCHANGED requests
         /\ file' = file_after_load(file)
    ELSE /\ response' = [route |-> "/start_game", code |-> 200,
                         body |-> [message |-> "Game has started!"]]
         /\ UNCHANGED requests
         /\ file' = save_game_data(
               [game_data EXCEPT
                  !.game_status = "in progress",
                  !.current_turn = at(game_data.turn_order, 0)])

\* POST /start_game (game.py:89-100)
start_game ==
    LET game_data == load_game_data(file) IN
    IF Cardinality(DOMAIN game_data.players) < 3
    THEN /\ response' = [route |-> "/start_game", code |-> 400,
                         body |-> [error |-> "At least 3 players required to start."]]
         /\ UNCHANGED requests
         /\ file' = file_after_load(file)
    ELSE /\ response' = [route |-> "/start_game", code |-> 200,
                         body |-> [message |-> "Game has started!"]]
         /\ UNCHANGED requests
         /\ file' = save_game_data(
               [game_data EXCEPT
                  !.game_status = "in progress",
                  !.current_turn = at(game_data.turn_order, 0)])

\* execute_action that checks the turn before the eliminated flag
execute_action_turn_first(player, action) ==
    LET game_data == load_game_data(file) IN
    IF player \notin DOMAIN game_data.players
    THEN /\ response' = [route |-> "/execute_action", code |-> 400,
                         body |-> [message |-> "Player does not exist.",
                                   status |-> "failed"]]
         /\ UNCHANGED requests
         /\ file' = file_after_load(file)
    ELSE IF game_data.current_turn # player
    THEN /\ response' = [route |-> "/execute_action", code |-> 400,
                         body |-> [message |-> "It is not your turn.",
                                   status |-> "failed"]]
         /\ UNCHANGED requests
         /\ file' = file_after_load(file)
    ELSE IF game_data.players[player].eliminated
    THEN /\ response' = [route |-> "/execute_action", code |-> 400,
                         body |-> [message |-> "Player " \o player
                                      \o " is eliminated and cannot act.",
                                   status |-> "failed"]]
         /\ UNCHANGED requests
         /\ file' = file_after_load(file)
    ELSE /\ Len(game_data.game_events) < MaxEvents
         /\ response' = [route |-> "/execute_action", code |-> 200,
                         body |-> [message |-> executed_message(player, action),
                                   status |-> "success"]]
         /\ UNCHANGED requests
         /\ file' = save_game_data(
               [game_data EXCEPT
                  !.game_events = Append(@, executed_message(player, action)),
                  !.current_turn = at(game_data.turn_order,
                                      next_turn_index(game_data, player))])

\* execute_action that logs the action before it checks the turn: a player
\* out of turn is refused after the record has been saved
execute_action_log_first(player, action) ==
    LET game_data == load_game_data(file) IN
    IF player \notin DOMAIN game_data.players
    THEN /\ response' = [route |-> "/execute_action", code |-> 400,
                         body |-> [message |-> "Player does not exist.",
                                   status |-> "failed"]]
         /\ UNCHANGED requests
         /\ file' = file_after_load(file)
    ELSE IF game_data.players[player].eliminated
    THEN /\ response' = [route |-> "/execute_action", code |-> 400,
                         body |-> [message |-> "Player " \o player
                                      \o " is eliminated and cannot act.",
                                   status |-> "failed"]]
         /\ UNCHANGED requests
         /\ file' = file_after_load(file)
    ELSE IF game_data.current_turn # player
    THEN /\ Len(game_data.game_events) < MaxEvents
         /\ response' = [route |-> "/execute_action", code |-> 400,
                         body |-> [message |-> "It is not your turn.",
                                   status |-> "failed"]]
         /\ UNCHANGED requests
         /\ file' = save_game_data(
               [game_data EXCEPT
                  !.game_events = Append(@, executed_message(player, action))])
    ELSE /\ Len(game_data.game_events) < MaxEvents
         /\ response' = [route |-> "/execute_action", code |-> 200,
                         body |-> [message |-> executed_message(player, action),
                                   status |-> "success"]]
         /\ UNCHANGED requests
         /\ file' = save_game_data(
               [game_data EXCEPT
                  !.game_events = Append(@, executed_message(player, action)),
                  !.current_turn = at(game_data.turn_order,
                                      next_turn_index(game_data, player))])

\* execute_action without the eliminated check: an eliminated player whose
\* turn it is acts
execute_action_eliminated_acts(player, action) ==
    LET game_data == load_game_data(file) IN
    IF player \notin DOMAIN game_data.players
    THEN /\ response' = [route |-> "/execute_action", code |-> 400,
                         body |-> [message |-> "Player does not exist.",
                                   status |-> "failed"]]
         /\ UNCHANGED requests
         /\ file' = file_after_load(file)
    ELSE IF game_data.current_turn # player
    THEN /\ response' = [route |-> "/execute_action", code |-> 400,
                         body |-> [message |-> "It is not your turn.",
                                   status |-> "failed"]]
         /\ UNCHANGED requests
         /\ file' = file_after_load(file)
    ELSE /\ Len(game_data.game_events) < MaxEvents
         /\ response' = [route |-> "/execute_action", code |-> 200,
                         body |-> [message |-> executed_message(player, action),
                                   status |-> "success"]]
         /\ UNCHANGED requests
         /\ file' = save_game_data(
               [game_data EXCEPT
                  !.game_events = Append(@, executed_message(player, action)),
                  !.current_turn = at(game_data.turn_order,
                                      next_turn_index(game_data, player))])

\* POST /execute_action (game.py:102-129)
execute_action(player, action) ==
    LET game_data == load_game_data(file) IN
    IF player \notin DOMAIN game_data.players
    THEN /\ response' = [route |-> "/execute_action", code |-> 400,
                         body |-> [message |-> "Player does not exist.",
                                   status |-> "failed"]]
         /\ UNCHANGED requests
         /\ file' = file_after_load(file)
    ELSE IF game_data.players[player].eliminated
    THEN /\ response' = [route |-> "/execute_action", code |-> 400,
                         body |-> [message |-> "Player " \o player
                                      \o " is eliminated and cannot act.",
                                   status |-> "failed"]]
         /\ UNCHANGED requests
         /\ file' = file_after_load(file)
    ELSE IF game_data.current_turn # player
    THEN /\ response' = [route |-> "/execute_action", code |-> 400,
                         body |-> [message |-> "It is not your turn.",
                                   status |-> "failed"]]
         /\ UNCHANGED requests
         /\ file' = file_after_load(file)
    ELSE /\ Len(game_data.game_events) < MaxEvents
         /\ response' = [route |-> "/execute_action", code |-> 200,
                         body |-> [message |-> executed_message(player, action),
                                   status |-> "success"]]
         /\ UNCHANGED requests
         /\ file' = save_game_data(
               [game_data EXCEPT
                  !.game_events = Append(@, executed_message(player, action)),
                  !.current_turn = at(game_data.turn_order,
                                      next_turn_index(game_data, player))])

(***************************************************************************)
(* Environment.  No route of game.py writes a player's eliminated flag;    *)
(* the flag read at game.py:114 (and gpt_ai.py:15) is set by whoever else  *)
(* writes DATA_FILE.  That writer is modelled as flipping the flag of one  *)
(* registered player in a decodable file, and nothing else.                *)
(***************************************************************************)
eliminate(player) ==
    /\ file.kind = "json"
    /\ player \in DOMAIN file.data.players
    /\ ~file.data.players[player].eliminated
    /\ NumEliminated(file.data) < MaxEliminated
    /\ response' = NoResponse
    /\ UNCHANGED requests
    /\ file' = [file EXCEPT !.data.players[player].eliminated = TRUE]

Next ==
    \/ game_state
    \/ reset_game
    \/ \E r \in CreateInputs : create_player(r.name, r.house, r.type)
    \/ start_game
    \/ \E p \in PlayerInputs, a \in ActionInputs : execute_action(p, a)
    \/ \E p \in Names : eliminate(p)

Spec == Init /\ [][Next]_vars

(***************************************************************************)
(* The routes over a file of any content.  A route that calls              *)
(* load_game_data() on a file it cannot decode ends in the uncaught        *)
(* exception: Flask answers 500 and the file is left as it is.             *)
(***************************************************************************)
LoadingRoutes == {"/game_state", "/create_player", "/start_game",
                  "/execute_action"}

load_error(route) ==
    /\ load_raises(file)
    /\ response' = [route |-> route, code |-> 500,
                    body |-> [error |-> "UnicodeDecodeError"]]
    /\ UNCHANGED requests
    /\ file' = file

\* GET /game_state over a file of any content
game_state_request ==
    \/ ~load_raises(file) /\ game_state
    \/ load_error("/game_state")

\* POST /create_player: the missing-field check (game.py:69-70) answers
\* before the file is loaded (game.py:72)
create_player_request(player_name, house, player_type) ==
    \/ /\ ~load_raises(file) \/ ~Truthy(player_name) \/ ~Truthy(house)
       /\ create_player(player_name, house, player_type)
    \/ /\ Truthy(player_name) /\ Truthy(house)
       /\ load_error("/create_player")

start_game_request ==
    \/ ~load_raises(file) /\ start_game
    \/ load_error("/start_game")

execute_action_request(player, action) ==
    \/ ~load_raises(file) /\ execute_action(player, action)
    \/ load_error("/execute_action")

NextStore ==
    \/ game_state_request
    \/ reset_game
    \/ \E r \in CreateInputs : create_player_request(r.name, r.house, r.type)
    \/ start_game_request
    \/ \E p \in PlayerInputs, a \in ActionInputs : execute_action_request(p, a)
    \/ \E p \in Names : eliminate(p)

SpecStore == InitStore /\ [][NextStore]_vars

(***************************************************************************)
(* The AI move generator of src/gpt_ai.py.  generate_ai_action is a        *)
(* function of the document and the player name (and of random.choice);    *)
(* it is applied to documents drawn from a bounded set, because no route   *)
(* of game.py writes ai_difficulty, last_attacks or power.  The outcome of *)
(* a call is [returned |-> text] or [raised |-> exception name]; the       *)
(* record of the call is kept in `response`.                               *)
(***************************************************************************)
\* gpt_ai.py:6-9: a plain open + json.load, nothing is caught
ai_load_raises(f) ==
    IF f.kind = "json" THEN ""
    ELSE IF f.kind = "missing" THEN "FileNotFoundError"
    ELSE IF f.kind = "corrupt" THEN "JSONDecodeError"
    ELSE "UnicodeDecodeError"

\* game_data['players'].get(x, {}).get('power', 0)  (gpt_ai.py:26)
power_key(game_data, x) ==
    IF x \in DOMAIN game_data.players THEN game_data.players[x].power ELSE 0

\* one step of a stable ascending sort: x goes behind every element whose
\* key is not greater than its own
RECURSIVE insert_by_power(_, _, _)
insert_by_power(game_data, seq, x) ==
    IF seq = <<>> THEN <<x>>
    ELSE IF power_key(game_data, Head(seq)) <= power_key(game_data, x)
         THEN <<Head(seq)>> \o insert_by_power(game_data, Tail(seq), x)
         ELSE <<x>> \o seq

\* the same step of a sort that is not stable: x goes in front of the
\* elements with an equal key
RECURSIVE insert_by_power_unstable(_, _, _)
insert_by_power_unstable(game_data, seq, x) ==
    IF seq = <<>> THEN <<x>>
    ELSE IF power_key(game_data, Head(seq)) < power_key(game_data, x)
         THEN <<Head(seq)>> \o insert_by_power_unstable(game_data, Tail(seq), x)
         ELSE <<x>> \o seq

\* sorted(seq, key=lambda x: power_key(x)) with the unstable step
RECURSIVE sorted_by_power_unstable(_, _)
sorted_by_power_unstable(game_data, seq) ==
    IF seq = <<>> THEN <<>>
    ELSE insert_by_power_unstable(game_data,
             sorted_by_power_unstable(game_data, SubSeq(seq, 1, Len(seq) - 1)),
             seq[Len(seq)])

\* sorted(seq, key=lambda x: power_key(x)): ascending and stable
\* (gpt_ai.py:26)
RECURSIVE sorted_by_power(_, _)
sorted_by_power(game_data, seq) ==
    IF seq = <<>> THEN <<>>
    ELSE insert_by_power(game_data,
             sorted_by_power(game_data, SubSeq(seq, 1, Len(seq) - 1)),
             seq[Len(seq)])

\* the outcomes generate_ai_action(player_name) can have on a loaded
\* document (gpt_ai.py:15-28); random.choice of an empty list and [0] of
\* an empty list raise IndexError
ai_outcomes(game_data, player_name) ==
    IF /\ player_name \in DOMAIN game_data.players
       /\ game_data.players[player_name].eliminated
    THEN {[returned |-> "No Action"]}
    ELSE IF game_data.ai_difficulty = "easy"
    THEN IF DOMAIN game_data.players = {}
         THEN {[raised |-> "IndexError"]}
         ELSE {[returned |-> "Defend"]} \cup
              {[returned |-> "Attack " \o n] : n \in DOMAIN game_data.players}
    ELSE IF game_data.ai_difficulty = "intermediate"
    THEN IF /\ player_name \in DOMAIN game_data.last_attacks
            /\ Truthy(game_data.last_attacks[player_name])
         THEN {[returned |-> "Defend"]}
         ELSE IF game_data.turn_order = <<>>
         THEN {[raised |-> "IndexError"]}
         ELSE {[returned |-> "Attack " \o n] : n \in
                  {game_data.turn_order[i] : i \in 1..Len(game_data.turn_order)}}
    ELSE IF game_data.ai_difficulty = "advanced"
    THEN IF game_data.turn_order = <<>>
         THEN {[raised |-> "IndexError"]}
         ELSE {[returned |-> "Attack " \o
                   at(sorted_by_power(game_data, game_data.turn_order), 0)]}
    ELSE {[returned |-> "Defend"]}

\* generate_ai_action that records the attack it suggests in last_attacks
\* and saves the document
generate_ai_action_records(player_name) ==
    \E outcome \in
        IF ai_load_raises(file) # ""
        THEN {[raised |-> ai_load_raises(file)]}
        ELSE ai_outcomes(file.data, player_name) :
        /\ response' = [route |-> "generate_ai_action", code |-> 0,
                        player |-> player_name, body |-> outcome]
        /\ UNCHANGED requests
        /\ file' = IF /\ ai_load_raises(file) = ""
                      /\ "returned" \in DOMAIN outcome
                      /\ outcome.returned \notin {"Defend", "No Action"}
                   THEN save_game_data(
                          [file.data EXCEPT !.last_attacks =
                              (player_name :> outcome.returned) @@ @])
                   ELSE file

\* generate_ai_action(player_name) (gpt_ai.py:11-28): loads, computes,
\* returns; it never writes DATA_FILE
generate_ai_action(player_name) ==
    /\ \E outcome \in
          IF ai_load_raises(file) # ""
          THEN {[raised |-> ai_load_raises(file)]}
          ELSE ai_outcomes(file.data, player_name) :
          response' = [route |-> "generate_ai_action", code |-> 0,
                       player |-> player_name, body |-> outcome]
    /\ UNCHANGED requests
    /\ file' = file

\* The documents the generator is applied to.
AiNames == {"P1", "P2", "P3"}
Powers == {0, 2, 5}
Difficulties == {"easy", "intermediate", "advanced", "normal"}

\* turn orders without repetition over AiNames
AiTurnOrders ==
    {s \in UNION {[1..n -> AiNames] : n \in 0..Cardinality(AiNames)} :
        \A i, j \in 1..Len(s) : s[i] = s[j] => i = j}

\* player records: the powers vary in the documents of difficulty
\* "advanced", the only one that reads them
AiPlayers(difficulty) ==
    LET powers == IF difficulty = "advanced" THEN Powers ELSE {5}
        records == {[new_player("Stark", "ai") EXCEPT !.power = pw,
                                                      !.eliminated = e] :
                       pw \in powers, e \in BOOLEAN}
    IN  UNION {[D -> records] : D \in SUBSET AiNames}

\* last_attacks: read by difficulty "intermediate" only
AiLastAttacks(difficulty) ==
    IF difficulty = "intermediate"
    THEN {<<>>, "P1" :> "P2", "P1" :> ""}
    ELSE {<<>>}

AiDocuments ==
    UNION {
      {[initial_state EXCEPT !.ai_difficulty = d,
                             !.turn_order = t,
                             !.players = ps,
                             !.last_attacks = la,
                             !.game_status = "in progress",
                             !.current_turn = IF t = <<>> THEN None ELSE t[1]] :
          t \in AiTurnOrders,
          ps \in {p \in AiPlayers(d) :
                    Cardinality({n \in DOMAIN p : p[n].eliminated})
                        <= MaxEliminated},
          la \in AiLastAttacks(d)} : d \in Difficulties}

InitAI ==
    /\ file \in {save_game_data(d) : d \in AiDocuments}
                 \cup {[kind |-> "missing"], [kind |-> "corrupt"]}
    /\ response = NoResponse
    /\ requests = NoRequests

NextAI == \E p \in PlayerInputs : generate_ai_action(p)

SpecAI == InitAI /\ [][NextAI]_vars

(***************************************************************************)
(* Two overlapping requests.  A handler has no lock around its load        *)
(* (game.py:72, 92, 109) and its save (game.py:85, 98, 127), and the       *)
(* server runs each request in its own thread, so the load of one request  *)
(* and its save are separate steps between which the other request may     *)
(* load or save.  What a handler does between the two is local to it.      *)
(***************************************************************************)
\* create_player on its local game_data, after the load (game.py:73-87)
create_player_local(game_data, request) ==
    IF request.name \in DOMAIN game_data.players
    THEN [code |-> 400, body |-> [error |-> "Player already exists"],
          saved |-> FALSE, game_data |-> game_data]
    ELSE [code |-> 201,
          body |-> [message |-> "Player " \o request.name
                      \o " from House " \o request.house
                      \o " created successfully."],
          saved |-> TRUE,
          game_data |-> [game_data EXCEPT
              !.players = (request.name :>
                              new_player(request.house, request.type)) @@ @,
              !.turn_order = Append(@, request.name)]]

\* start_game on its local game_data, after the load (game.py:93-100)
start_game_local(game_data) ==
    IF Cardinality(DOMAIN game_data.players) < 3
    THEN [code |-> 400,
          body |-> [error |-> "At least 3 players required to start."],
          saved |-> FALSE, game_data |-> game_data]
    ELSE [code |-> 200, body |-> [message |-> "Game has started!"],
          saved |-> TRUE,
          game_data |-> [game_data EXCEPT
              !.game_status = "in progress",
              !.current_turn = at(game_data.turn_order, 0)]]

\* execute_action on its local game_data, after the load (game.py:111-129)
execute_action_local(game_data, request) ==
    IF request.player \notin DOMAIN game_data.players
    THEN [code |-> 400,
          body |-> [message |-> "Player does not exist.", status |-> "failed"],
          saved |-> FALSE, game_data |-> game_data]
    ELSE IF game_data.players[request.player].eliminated
    THEN [code |-> 400,
          body |-> [message |-> "Player " \o request.player
                      \o " is eliminated and cannot act.",
                    status |-> "failed"],
          saved |-> FALSE, game_data |-> game_data]
    ELSE IF game_data.current_turn # request.player
    THEN [code |-> 400,
          body |-> [message |-> "It is not your turn.", status |-> "failed"],
          saved |-> FALSE, game_data |-> game_data]
    ELSE [code |-> 200,
          body |-> [message |-> executed_message(request.player, request.action),
                    status |-> "success"],
          saved |-> TRUE,
          game_data |-> [game_data EXCEPT
              !.game_events = Append(@, executed_message(request.player,
                                                         request.action)),
              !.current_turn = at(game_data.turn_order,
                                  next_turn_index(game_data, request.player))]]

\* what the handler of a request answers and saves, given what it loaded
handle(request, game_data) ==
    CASE request.route = "/create_player" ->
            create_player_local(game_data, request)
      [] request.route = "/start_game" -> start_game_local(game_data)
      [] request.route = "/execute_action" ->
            execute_action_local(game_data, request)

\* first half of a handler: load_game_data() into the local game_data
load_request(r, request) ==
    /\ requests[r].pc = "idle"
    /\ requests' = [requests EXCEPT ![r] =
                       [pc |-> "loaded", request |-> request,
                        game_data |-> load_game_data(file)]]
    /\ response' = response
    /\ file' = file_after_load(file)

\* second half of a handler that holds a lock from load to save: its
\* game_data is the document as it is when it saves
save_request_locked(r) ==
    /\ requests[r].pc = "loaded"
    /\ LET out == handle(requests[r].request, load_game_data(file))
           answer == [route |-> requests[r].request.route,
                      code |-> out.code, body |-> out.body]
       IN  /\ requests' = [requests EXCEPT ![r] =
                              [pc |-> "done", request |-> @.request,
                               game_data |-> @.game_data,
                               response |-> answer]]
           /\ response' = answer
           /\ file' = IF out.saved THEN save_game_data(out.game_data)
                      ELSE file

\* second half of a handler: checks and mutation on the local game_data,
\* save_game_data(game_data) of the whole document, and the response
save_request(r) ==
    /\ requests[r].pc = "loaded"
    /\ LET out == handle(requests[r].request, requests[r].game_data)
           answer == [route |-> requests[r].request.route,
                      code |-> out.code, body |-> out.body]
       IN  /\ requests' = [requests EXCEPT ![r] =
                              [pc |-> "done", request |-> @.request,
                               game_data |-> @.game_data,
                               response |-> answer]]
           /\ response' = answer
           /\ file' = IF out.saved THEN save_game_data(out.game_data)
                      ELSE file

\* the requests that overlap: two new names, the two first players acting,
\* and a start
RaceRequests ==
    {[route |-> "/create_player", name |-> n, house |-> "Stark",
      type |-> "human"] : n \in {"P3", "P4"}}
    \cup {[route |-> "/execute_action", player |-> p, action |-> a] :
             p \in {"P1", "P2"}, a \in ActionInputs}
    \cup {[route |-> "/start_game"]}

\* the document after the names of order registered in that order, and
\* after a start_game if started
RaceDocument(order, started) ==
    [initial_state EXCEPT
        !.players = [n \in {order[i] : i \in DOMAIN order} |->
                        new_player("Stark", "human")],
        !.turn_order = order,
        !.game_status = IF started THEN "in progress" ELSE "waiting",
        !.current_turn = IF started THEN at(order, 0) ELSE None]

RaceDocuments ==
    {RaceDocument(<<>>, FALSE),
     RaceDocument(<<"P1", "P2">>, FALSE),
     RaceDocument(<<"P1", "P2", "P3">>, FALSE),
     RaceDocument(<<"P1", "P2", "P3">>, TRUE)}

InitRace ==
    /\ file \in {save_game_data(d) : d \in RaceDocuments}
    /\ response = NoResponse
    /\ requests = NoRequests

NextRace ==
    \/ \E r \in RequestIds, request \in RaceRequests : load_request(r, request)
    \/ \E r \in RequestIds : save_request(r)

SpecRace == InitRace /\ [][NextRace]_vars

(***************************************************************************)
(* A game in progress left to its players: the documents a start_game      *)
(* leaves after 3 or 4 names registered in any order, and from there only  *)
(* execute_action requests (and reads), so that game_events is the list of *)
(* the successful execute_action calls since the start, with no            *)
(* create_player, start_game or reset_game between them.                   *)
(***************************************************************************)
RoundOrders ==
    {order \in UNION {[1..n -> Names] : n \in 3..Cardinality(Names)} :
        \A i, j \in DOMAIN order : i # j => order[i] # order[j]}

InitRound ==
    /\ file \in {save_game_data(RaceDocument(order, TRUE)) :
                    order \in RoundOrders}
    /\ response = NoResponse
    /\ requests = NoRequests

NextRound ==
    \/ game_state
    \/ \E p \in PlayerInputs, a \in ActionInputs : execute_action(p, a)

SpecRound == InitRound /\ [][NextRound]_vars

TypeOK ==
    /\ file.kind \in {"json", "missing", "corrupt", "bytes"}
    /\ response.code \in {0, 200, 201, 400, 500}
    /\ \A r \in RequestIds : requests[r].pc \in {"idle", "loaded", "done"}

(***************************************************************************)
(* Properties.  The document a caller observes is the one load_game_data   *)
(* returns: Doc before a step, Doc' after it.                              *)
(***************************************************************************)
Doc == load_game_data(file)

Elems(seq) == {seq[i] : i \in 1..Len(seq)}

Registered(game_data) == DOMAIN game_data.players

\* the name that follows `player` in seq, cyclically
Successor(seq, player) ==
    LET i == CHOOSE k \in 1..Len(seq) : seq[k] = player
    IN  IF i = Len(seq) THEN seq[1] ELSE seq[i + 1]

UnknownPlayerError == "Player does not exist."
EliminatedPlayerError(player) ==
    "Player " \o player \o " is eliminated and cannot act."
NotYourTurnError == "It is not your turn."

\* C1: a successful execute_action(player, action) appends exactly the
\* record "{player} executed {action}." to game_events, moves current_turn
\* to the cyclic successor of player in turn_order whether or not that
\* successor is eliminated, and changes no other field of the document.
C1_ExecuteAppendsAndRotates ==
    [][(response'.route = "/execute_action" /\ response'.code = 200) =>
       \A p \in PlayerInputs, a \in ActionInputs :
          execute_action(p, a) =>
              /\ file'.kind = "json"
              /\ Len(Doc'.game_events) = Len(Doc.game_events) + 1
              /\ SubSeq(Doc'.game_events, 1, Len(Doc.game_events))
                    = Doc.game_events
              /\ Doc'.game_events[Len(Doc'.game_events)]
                    = p \o " executed " \o a \o "."
              /\ response'.body.message = p \o " executed " \o a \o "."
              /\ Doc'.current_turn = Successor(Doc.turn_order, p)
              /\ [Doc' EXCEPT !.game_events = <<>>, !.current_turn = None]
                    = [Doc EXCEPT !.game_events = <<>>, !.current_turn = None]
    ]_vars

\* C1 witness: the last player of the rotation has just acted and the turn
\* wrapped around to the first one, who is eliminated.
C1_Witness ==
    /\ response.route = "/execute_action"
    /\ response.code = 200
    /\ file.kind = "json"
    /\ Len(file.data.turn_order) >= 3
    /\ file.data.current_turn = file.data.turn_order[1]
    /\ file.data.players[file.data.current_turn].eliminated
    /\ response.body.message =
          file.data.turn_order[Len(file.data.turn_order)] \o " executed attack."
    /\ file.data.game_events[Len(file.data.game_events)] = response.body.message

\* C2: execute_action validates in a fixed order: an unregistered player is
\* always answered "Player does not exist."; otherwise an eliminated player
\* is always answered "... is eliminated and cannot act.", also when it is
\* that player's turn; otherwise a player who is not current_turn is
\* answered "It is not your turn."; only a registered, non-eliminated
\* player who is current_turn succeeds.
C2_ValidationOrder ==
    [][response'.route = "/execute_action" =>
       \A p \in PlayerInputs, a \in ActionInputs :
          execute_action(p, a) =>
              /\ response'.code \in {200, 400}
              /\ IF p \notin Registered(Doc)
                 THEN /\ response'.code = 400
                      /\ response'.body.message = UnknownPlayerError
                 ELSE IF Doc.players[p].eliminated
                 THEN /\ response'.code = 400
                      /\ response'.body.message = EliminatedPlayerError(p)
                 ELSE IF Doc.current_turn # p
                 THEN /\ response'.code = 400
                      /\ response'.body.message = NotYourTurnError
                 ELSE /\ response'.code = 200
                      /\ response'.body.status = "success"
    ]_vars

\* C2 witness: the player whose turn it is is eliminated and was refused as
\* eliminated.
C2_Witness ==
    /\ response.route = "/execute_action"
    /\ response.code = 400
    /\ file.kind = "json"
    /\ file.data.current_turn \in Registered(file.data)
    /\ file.data.players[file.data.current_turn].eliminated
    /\ response.body.message = EliminatedPlayerError(file.data.current_turn)

\* C3: a failed execute_action (unknown player, eliminated player, not the
\* player's turn, in a waiting or a started game) leaves the document as it
\* was: the same current_turn, the same game_events, the same everything;
\* a decodable file is not rewritten at all.
C3_FailedExecuteChangesNothing ==
    [][(response'.route = "/execute_action" /\ response'.code = 400) =>
       \A p \in PlayerInputs, a \in ActionInputs :
          execute_action(p, a) =>
              /\ Doc' = Doc
              /\ Doc'.current_turn = Doc.current_turn
              /\ Doc'.game_events = Doc.game_events
              /\ file.kind = "json" => file' = file
    ]_vars

\* C3 witness: a started game with a non-empty log in which a player was
\* refused because it was not that player's turn.
C3_Witness ==
    /\ response.route = "/execute_action"
    /\ response.code = 400
    /\ response.body.message = NotYourTurnError
    /\ file.kind = "json"
    /\ file.data.game_status = "in progress"
    /\ Len(file.data.game_events) >= 1

\* C4: start_game with at least 3 registered players succeeds and sets
\* game_status to "in progress" and current_turn to turn_order[0], the
\* player registered first.
C4_StartSetsFirstPlayer ==
    [][(response'.route = "/start_game" /\ start_game
          /\ Cardinality(Registered(Doc)) >= 3) =>
              /\ response'.code = 200
              /\ Doc'.game_status = "in progress"
              /\ Doc'.current_turn = Head(Doc.turn_order)
              /\ Doc'.current_turn = Head(Doc'.turn_order)
    ]_vars

\* C4 witness: a game of at least 3 players was started and the turn is
\* with the first registered player.
C4_Witness ==
    /\ response.route = "/start_game"
    /\ response.code = 200
    /\ file.kind = "json"
    /\ Cardinality(Registered(file.data)) >= 3
    /\ file.data.game_status = "in progress"
    /\ file.data.current_turn = file.data.turn_order[1]

\* C5: start_game with fewer than 3 registered players fails ("At least 3
\* players required to start.") and changes no field of the document.
C5_StartNeedsThreePlayers ==
    [][(response'.route = "/start_game" /\ start_game
          /\ Cardinality(Registered(Doc)) < 3) =>
              /\ response'.code = 400
              /\ response'.body.error = "At least 3 players required to start."
              /\ Doc'.game_status = Doc.game_status
              /\ Doc'.current_turn = Doc.current_turn
              /\ Doc' = Doc
              /\ file.kind = "json" => file' = file
    ]_vars

\* C5 witness: start_game was refused with exactly 2 players registered.
C5_Witness ==
    /\ response.route = "/start_game"
    /\ response.code = 400
    /\ file.kind = "json"
    /\ Cardinality(Registered(file.data)) = 2
    /\ file.data.game_status = "waiting"

\* C6: create_player with a non-empty name that is not registered and a
\* non-empty house succeeds, and the document read afterwards holds that
\* player with power 5, castles 1, influence 3, eliminated false, the
\* requested house and type, and turn_order is the previous turn_order
\* with the name appended as its last element.
C6_CreateRegistersPlayer ==
    [][response'.route = "/create_player" =>
       \A r \in {x \in CreateInputs : /\ Truthy(x.name) /\ Truthy(x.house)
                                      /\ x.name \notin Registered(Doc)} :
          LET n == r.name  h == r.house  t == r.type IN
          create_player(n, h, t) =>
              /\ response'.code = 201
              /\ file'.kind = "json"
              /\ n \in Registered(Doc')
              /\ Doc'.players[n].power = 5
              /\ Doc'.players[n].castles = 1
              /\ Doc'.players[n].influence = 3
              /\ Doc'.players[n].eliminated = FALSE
              /\ Doc'.players[n].type = t
              /\ Doc'.players[n].house = h
              /\ Doc'.turn_order = Doc.turn_order \o <<n>>
    ]_vars

\* C6 witness: a player of type "ai" has just been registered after another
\* player and is the last element of turn_order.
C6_Witness ==
    /\ response.route = "/create_player"
    /\ response.code = 201
    /\ file.kind = "json"
    /\ Len(file.data.turn_order) >= 2
    /\ LET n == file.data.turn_order[Len(file.data.turn_order)]
       IN  /\ file.data.players[n].type = "ai"
           /\ file.data.players[n].power = 5
           /\ response.body.message =
                 "Player " \o n \o " from House Stark created successfully."

\* C7 as stated: create_player with a registered name answers "Player
\* already exists" and leaves the document unchanged, whatever the house.
C7_AsStated ==
    [][response'.route = "/create_player" =>
       \A r \in {x \in CreateInputs : x.name \in Registered(Doc)} :
          LET n == r.name  h == r.house  t == r.type IN
          create_player(n, h, t) =>
              /\ response'.code = 400
              /\ response'.body.error = "Player already exists"
              /\ Doc' = Doc
    ]_vars

\* C7 (amended): create_player with a registered name leaves the document
\* unchanged (the existing record is kept, turn_order gains no second
\* occurrence of the name) and is refused: as "Player already exists" when
\* the house is non-empty, as "Missing player name or house" when the house
\* is empty or missing, because that check comes first.
C7_DuplicateRefused ==
    [][response'.route = "/create_player" =>
       \A r \in {x \in CreateInputs : x.name \in Registered(Doc)} :
          LET n == r.name  h == r.house  t == r.type IN
          create_player(n, h, t) =>
              /\ response'.code = 400
              /\ response'.body.error =
                    IF Truthy(h) THEN "Player already exists"
                                 ELSE "Missing player name or house"
              /\ Doc'.players[n] = Doc.players[n]
              /\ Cardinality({i \in 1..Len(Doc'.turn_order) :
                                 Doc'.turn_order[i] = n}) = 1
              /\ file' = file
    ]_vars

\* C7 witness: with players registered, a create_player was refused as a
\* duplicate.
C7_Witness ==
    /\ response.route = "/create_player"
    /\ response.code = 400
    /\ response.body.error = "Player already exists"
    /\ file.kind = "json"
    /\ Registered(file.data) # {}

\* C8: in every reachable state current_turn is None if and only if
\* game_status is "waiting".
C8_TurnSetIffStarted ==
    (Doc.current_turn = None) <=> (Doc.game_status = "waiting")

\* C8 witness: a started game in which an action has been executed, so the
\* turn has been set by start_game and moved by execute_action.
C8_Witness ==
    /\ response.route = "/execute_action"
    /\ response.code = 200
    /\ Doc.game_status = "in progress"
    /\ Doc.current_turn \in Names

\* C9: in every reachable state turn_order holds each registered name
\* exactly once and no other name, and it is in registration order: a step
\* either leaves it alone, or empties it (reset), or is a successful
\* create_player that appends the new name at its end.
C9_TurnOrderIsRegistrationOrder ==
    /\ [](/\ Elems(Doc.turn_order) = Registered(Doc)
          /\ \A i, j \in 1..Len(Doc.turn_order) :
                Doc.turn_order[i] = Doc.turn_order[j] => i = j)
    /\ [][\/ Doc'.turn_order = Doc.turn_order
          \/ Doc'.turn_order = <<>> /\ Registered(Doc') = {}
          \/ \E n \in Names :
                /\ n \notin Registered(Doc)
                /\ response'.route = "/create_player"
                /\ response'.code = 201
                /\ Doc'.turn_order = Doc.turn_order \o <<n>>
       ]_vars

\* C9 witness: four players are registered, in an order that is not the
\* order of their names, and the game has been started and played.
C9_Witness ==
    /\ file.kind = "json"
    /\ file.data.turn_order = <<"P3", "P1", "P4", "P2">>
    /\ Len(file.data.game_events) >= 1

C11_StatusTransitions ==
    /\ [](Doc.game_status \in {"waiting", "in progress"})
    /\ [][\/ Doc'.game_status = Doc.game_status
          \/ /\ Doc.game_status = "waiting"
             /\ Doc'.game_status = "in progress"
             /\ response'.route = "/start_game"
             /\ response'.code = 200
             /\ start_game
          \/ /\ Doc.game_status = "in progress"
             /\ Doc'.game_status = "waiting"
             /\ response'.route = "/reset_game"
             /\ reset_game
       ]_vars

\* C11 witness: a started game that has been played and then read: the
\* status has stayed "in progress" through execute_action and game_state.
C11_Witness ==
    /\ response.route = "/game_state"
    /\ response.body.game_status = "in progress"
    /\ Len(response.body.game_events) >= 2
    /\ Doc.game_status = "in progress"

\* C12: whatever the state reset_game is called in (a played game, a file
\* that is missing or undecodable, a file that was just reset), the file it
\* leaves is the default document: no players, empty turn_order, status
\* "waiting", no current turn, empty ai_players, votes_to_start,
\* game_events and last_attacks, difficulty "normal".  A second reset in a
\* row therefore leaves the identical document.
C12_ResetYieldsDefault ==
    response.route = "/reset_game" =>
        /\ file.kind = "json"
        /\ DOMAIN file.data.players = {}
        /\ Len(file.data.turn_order) = 0
        /\ file.data.game_status = "waiting"
        /\ file.data.current_turn = None
        /\ Len(file.data.ai_players) = 0
        /\ DOMAIN file.data.votes_to_start = {}
        /\ Len(file.data.game_events) = 0
        /\ DOMAIN file.data.last_attacks = {}
        /\ file.data.ai_difficulty = "normal"
        /\ DOMAIN file.data =
              {"players", "turn_order", "game_status", "current_turn",
               "ai_players", "votes_to_start", "game_events", "last_attacks",
               "ai_difficulty"}

\* C12 witness: the state right after a reset.
C12_Witness ==
    /\ response.route = "/reset_game"
    /\ response.code = 200
    /\ file.kind = "json"
    /\ file.data.game_status = "waiting"
    /\ Registered(file.data) = {}

\* C13 as stated: GET /game_state answers with what load_game_data()
\* returns.  When the file holds a document, that document is returned and
\* the file is left alone; when the file is missing or cannot be decoded,
\* the file is replaced by the default document, the default document is
\* returned, and no decode error reaches the caller.
C13_LoadSelfHeals ==
    [][(response'.route = "/game_state" /\ game_state_request) =>
          IF file.kind = "json"
          THEN /\ response'.code = 200
               /\ response'.body = file.data
               /\ file' = file
          ELSE /\ response'.code = 200
               /\ response'.body.game_status = "waiting"
               /\ response'.body.current_turn = None
               /\ DOMAIN response'.body.players = {}
               /\ Len(response'.body.turn_order) = 0
               /\ Len(response'.body.game_events) = 0
               /\ file'.kind = "json"
               /\ file'.data = response'.body
    ]_vars

\* C14: generate_ai_action never changes the persisted state: for every
\* document (of every difficulty), every file that cannot be loaded and
\* every player name, the file after the call is the file before it,
\* whatever the call returns or raises.
C14_GenerateLeavesFileAlone ==
    [][\A p \in PlayerInputs :
          generate_ai_action(p) =>
              /\ file' = file
              /\ response'.route = "generate_ai_action"
    ]_vars

\* C14 witness: on a document of difficulty "easy" the generator suggested
\* an attack, and the document shows no trace of it.
C14_Witness ==
    /\ response.route = "generate_ai_action"
    /\ response.player = "P1"
    /\ response.body = [returned |-> "Attack P2"]
    /\ file.kind = "json"
    /\ file.data.ai_difficulty = "easy"
    /\ file.data.turn_order = <<"P1", "P2", "P3">>
    /\ file.data.game_events = <<>>
    /\ file.data.last_attacks = <<>>
    /\ file.data.current_turn = "P1"

\* the power generate_ai_action ranks the i-th name of turn_order by
RankedPower(game_data, i) ==
    IF game_data.turn_order[i] \in DOMAIN game_data.players
    THEN game_data.players[game_data.turn_order[i]].power
    ELSE 0

\* the first name of turn_order among those of minimum power
FirstWeakest(game_data) ==
    LET n == Len(game_data.turn_order)
        i == CHOOSE k \in 1..n :
                /\ \A j \in 1..n :
                      RankedPower(game_data, k) <= RankedPower(game_data, j)
                /\ \A j \in 1..(k - 1) :
                      RankedPower(game_data, j) > RankedPower(game_data, k)
    IN  game_data.turn_order[i]

\* C15: with ai_difficulty "advanced", an acting player who is not
\* eliminated (registered or not) and a turn_order that names someone,
\* generate_ai_action returns "Attack X" where X is the name of turn_order
\* of minimum power, a name without a player record counting as power 0,
\* and among several names of minimum power the first in turn_order.
C15_AdvancedAttacksFirstWeakest ==
    (/\ response.route = "generate_ai_action"
     /\ file.kind = "json"
     /\ file.data.ai_difficulty = "advanced"
     /\ ~(/\ response.player \in DOMAIN file.data.players
          /\ file.data.players[response.player].eliminated)
     /\ file.data.turn_order # <<>>)
    => response.body = [returned |-> "Attack " \o FirstWeakest(file.data)]

\* C15 witness: P1 (power 0) and P3 (no player record, so power 0) share the
\* minimum, P1 comes first in turn_order, and P1, the acting player, is
\* told to attack itself.
C15_Witness ==
    /\ response.route = "generate_ai_action"
    /\ response.player = "P1"
    /\ response.body = [returned |-> "Attack P1"]
    /\ file.kind = "json"
    /\ file.data.ai_difficulty = "advanced"
    /\ file.data.turn_order = <<"P2", "P1", "P3">>
    /\ DOMAIN file.data.players = {"P1", "P2"}
    /\ file.data.players["P1"].power = 0
    /\ file.data.players["P2"].power = 2
    /\ ~file.data.players["P1"].eliminated

\* the request r has answered, and answered success
Succeeded(r) ==
    /\ requests[r].pc = "done"
    /\ requests[r].response.code \in {200, 201}

\* C16: without a critical section the last save wins on the whole
\* document: when two requests that loaded the same document have both
\* answered success, the file is what the one that answered last saved,
\* that is the document it loaded with its own change only; the change of
\* the other request is in the file only if it fell together with it.
C16_LastSaveWins ==
    (/\ \A r \in RequestIds : Succeeded(r)
     /\ requests["a"].game_data = requests["b"].game_data)
    => \E r \in RequestIds :
          /\ response = requests[r].response
          /\ file = save_game_data(
                handle(requests[r].request, requests[r].game_data).game_data)

\* C16 witness: with P1 and P2 registered, create_player P3 and
\* create_player P4 both loaded, both answered 201, P4 saved last, and P3
\* is not registered.
C16_Witness ==
    /\ \A r \in RequestIds : Succeeded(r)
    /\ requests["a"].request.route = "/create_player"
    /\ requests["a"].request.name = "P3"
    /\ requests["a"].response.code = 201
    /\ requests["b"].request.route = "/create_player"
    /\ requests["b"].request.name = "P4"
    /\ requests["b"].response.code = 201
    /\ file.data.turn_order = <<"P1", "P2", "P4">>
    /\ DOMAIN file.data.players = {"P1", "P2", "P4"}

\* C17: start_game on a game already in progress is not refused: it checks
\* the 3-player condition only and, that holding, answers 200, sets
\* current_turn to turn_order[0] whatever it was, keeps game_status
\* "in progress" and leaves game_events, players, turn_order and every
\* other field as they were; with fewer than 3 players it answers 400 and
\* changes nothing.
C17_RestartResetsTurn ==
    [][(/\ response'.route = "/start_game"
        /\ Doc.game_status = "in progress"
        /\ start_game)
       => IF Cardinality(Registered(Doc)) >= 3
          THEN /\ response'.code = 200
               /\ response'.body = [message |-> "Game has started!"]
               /\ Doc'.current_turn = Doc.turn_order[1]
               /\ Doc' = [Doc EXCEPT !.current_turn = Doc.turn_order[1]]
               /\ Doc'.game_status = "in progress"
               /\ Doc'.game_events = Doc.game_events
               /\ Doc'.players = Doc.players
               /\ Doc'.turn_order = Doc.turn_order
          ELSE /\ response'.code = 400
               /\ Doc' = Doc
    ]_vars

\* C17 witness: P1 has acted, so the turn had moved on, and a start_game
\* answered 200 and gave the turn back to P1 with the log kept.
C17_Witness ==
    /\ response.route = "/start_game"
    /\ response.code = 200
    /\ Doc.game_status = "in progress"
    /\ Doc.turn_order = <<"P1", "P2", "P3">>
    /\ Doc.game_events = <<executed_message("P1", "attack"),
                           executed_message("P2", "attack")>>
    /\ Doc.current_turn = "P1"

\* current_turn names an eliminated player
Frozen(game_data) ==
    /\ game_data.current_turn \in Registered(game_data)
    /\ game_data.players[game_data.current_turn].eliminated

\* C18: while current_turn names an eliminated player the game is frozen:
\* execute_action by that player is refused as eliminated, execute_action
\* by anyone else is refused as not their turn, eliminated or unknown, a
\* refused execute_action changes nothing, and current_turn changes only by
\* a start_game or a reset_game.
C18_FrozenOnEliminatedTurn ==
    [][Frozen(Doc) =>
        /\ response'.route = "/execute_action" =>
              \A p \in PlayerInputs, a \in ActionInputs :
                 execute_action(p, a) =>
                    /\ response'.code = 400
                    /\ response'.body.status = "failed"
                    /\ response'.body.message =
                          IF p = Doc.current_turn
                               THEN EliminatedPlayerError(p)
                          ELSE IF p \notin Registered(Doc)
                               THEN UnknownPlayerError
                          ELSE IF Doc.players[p].eliminated
                               THEN EliminatedPlayerError(p)
                          ELSE NotYourTurnError
                    /\ Doc' = Doc
        /\ Doc'.current_turn # Doc.current_turn =>
              response'.route \in {"/start_game", "/reset_game"}
    ]_vars

\* C18 witness: P1 acted, the turn went to P2 who is eliminated, and P2's
\* execute_action was refused as eliminated with the turn still on P2.
C18_Witness ==
    /\ response.route = "/execute_action"
    /\ response.code = 400
    /\ response.body.message = EliminatedPlayerError("P2")
    /\ Doc.game_status = "in progress"
    /\ Doc.current_turn = "P2"
    /\ Doc.players["P2"].eliminated
    /\ Doc.game_events = <<executed_message("P1", "attack")>>

\* the player who performed the i-th logged action
Performer(game_data, i) ==
    CHOOSE p \in Names :
        \E a \in ActionInputs : game_data.game_events[i] = executed_message(p, a)

\* whose turn it was after the i-th logged action
TurnAfter(game_data, i) ==
    IF i = Len(game_data.game_events)
    THEN game_data.current_turn
    ELSE Performer(game_data, i + 1)

\* C19: in a game in progress with n players, none eliminated, and only
\* execute_action requests since the start: an execute_action succeeds
\* exactly when it comes from current_turn; consecutive successful actions
\* are by consecutive players of turn_order (wrapping around); any n
\* consecutive successful actions are by the n players, each once, and
\* after them the turn is back on the player who performed the first.
C19_RoundRobin ==
    /\ [](LET n == Len(Doc.turn_order)
              k == Len(Doc.game_events)
          IN  /\ \A i \in 1..k :
                    /\ Performer(Doc, i) \in Elems(Doc.turn_order)
                    /\ TurnAfter(Doc, i) =
                          Successor(Doc.turn_order, Performer(Doc, i))
              /\ \A i \in 1..(k - n + 1) :
                    /\ {Performer(Doc, j) : j \in i..(i + n - 1)}
                          = Elems(Doc.turn_order)
                    /\ TurnAfter(Doc, i + n - 1) = Performer(Doc, i))
    /\ [][response'.route = "/execute_action" =>
            \A p \in PlayerInputs, a \in ActionInputs :
               execute_action(p, a) =>
                  /\ response'.code = 200 <=> p = Doc.current_turn
                  /\ response'.code = 200 =>
                        /\ Doc'.current_turn = Successor(Doc.turn_order, p)
                        /\ Doc'.game_events =
                              Append(Doc.game_events, executed_message(p, a))
                        /\ Doc'.turn_order = Doc.turn_order
       ]_vars

\* C19 witness: P2, P3 and P1 registered in that order, each acted once in
\* that order, and the turn is back on P2.
C19_Witness ==
    /\ response.route = "/execute_action"
    /\ response.code = 200
    /\ Doc.turn_order = <<"P2", "P3", "P1">>
    /\ Doc.game_events = <<executed_message("P2", "attack"),
                           executed_message("P3", "attack"),
                           executed_message("P1", "attack")>>
    /\ Doc.current_turn = "P2"

\* C20: create_player is accepted whatever game_status is: a name and a
\* house given and the name not registered, it answers 201.  A successful
\* create_player appends the name to turn_order and leaves game_status,
\* current_turn, game_events, last_attacks, ai_difficulty, ai_players,
\* votes_to_start and the record of every player registered before as they
\* were.  The turn comes to a player who is not first in turn_order, and
\* so to a player registered after the start, only by a successful
\* execute_action of the player just before it in turn_order.
C20_CreateAnyTimeAndFrame ==
    [][/\ response'.route = "/create_player" =>
            \A r \in CreateInputs :
               create_player(r.name, r.house, r.type) =>
                  /\ (/\ Truthy(r.name) /\ Truthy(r.house)
                      /\ r.name \notin Registered(Doc))
                     => response'.code = 201
                  /\ response'.code = 201 =>
                        /\ Doc'.turn_order = Append(Doc.turn_order, r.name)
                        /\ Doc'.game_status = Doc.game_status
                        /\ Doc'.current_turn = Doc.current_turn
                        /\ Doc'.game_events = Doc.game_events
                        /\ Doc'.last_attacks = Doc.last_attacks
                        /\ Doc'.ai_difficulty = Doc.ai_difficulty
                        /\ Doc'.ai_players = Doc.ai_players
                        /\ Doc'.votes_to_start = Doc.votes_to_start
                        /\ Registered(Doc') = Registered(Doc) \cup {r.name}
                        /\ \A q \in Registered(Doc) :
                              Doc'.players[q] = Doc.players[q]
       /\ (/\ Doc'.current_turn # Doc.current_turn
           /\ Doc'.current_turn # None
           /\ Doc'.current_turn # Doc'.turn_order[1])
          => /\ response'.route = "/execute_action"
             /\ response'.code = 200
             /\ Doc.current_turn \in Registered(Doc)
             /\ Doc'.current_turn = Successor(Doc.turn_order, Doc.current_turn)
             /\ Doc'.game_events # <<>>
             /\ \E a \in ActionInputs :
                   Doc'.game_events[Len(Doc'.game_events)]
                      = executed_message(Doc.current_turn, a)
    ]_vars

\* C20 witness: P1 and P2 have acted in a game of three, the turn is on P3,
\* and create_player P4 was accepted: P4 is last in turn_order, the game is
\* still in progress and the turn is still on P3.
C20_Witness ==
    /\ response.route = "/create_player"
    /\ response.code = 201
    /\ Doc.game_status = "in progress"
    /\ Doc.turn_order = <<"P1", "P2", "P3", "P4">>
    /\ Doc.game_events = <<executed_message("P1", "attack"),
                           executed_message("P2", "attack")>>
    /\ Doc.current_turn = "P3"
====
